---- MODULE Spec2Model ----
(***************************************************************************)
(* Sim(3): the group of 3D similarity transforms of sophus/sim3.hpp.       *)
(*                                                                         *)
(* A Sim3 element is a pair (rxso3, translation); rxso3 is a non-zero      *)
(* quaternion whose norm is the scale and whose direction is the           *)
(* orientation.  Scalar is modelled by exact rational numbers, so that     *)
(* every identity of the group algebra is decided exactly.                 *)
(*                                                                         *)
(* Indices: the source counts rows, columns and vector entries from 0,     *)
(* the model's tuples count from 1 (entry i of the source is entry i+1).   *)
(***************************************************************************)
EXTENDS Integers, Sequences, FiniteSets, TLC

VARIABLES g, res, n, ta, tb, coeffs

vars == <<g, res, n, ta, tb, coeffs>>

----------------------------------------------------------------------------
(* Scalar: exact rationals <<numerator, denominator>>, denominator > 0,    *)
(* in lowest terms.                                                        *)

IAbs(i) == IF i < 0 THEN -i ELSE i

RECURSIVE Gcd(_, _)
Gcd(x, y) == IF y = 0 THEN x ELSE Gcd(y, x % y)

Rat(num, den) ==
    LET s == IF den < 0 THEN -1 ELSE 1
        d == Gcd(IAbs(num), IAbs(den))
    IN  <<(s * num) \div d, (s * den) \div d>>

Int2S(i) == <<i, 1>>
Zero == Int2S(0)
One == Int2S(1)
Half == Rat(1, 2)

SAdd(x, y) ==
    IF x[2] = 1 /\ y[2] = 1 THEN <<x[1] + y[1], 1>>
    ELSE LET d == Gcd(x[2], y[2])
         IN  Rat(x[1] * (y[2] \div d) + y[1] * (x[2] \div d), x[2] * (y[2] \div d))
SNeg(x) == <<-x[1], x[2]>>
SSub(x, y) == SAdd(x, SNeg(y))
SMul(x, y) ==
    IF x[2] = 1 /\ y[2] = 1 THEN <<x[1] * y[1], 1>>
    ELSE LET d1 == Gcd(IAbs(x[1]), y[2])
             d2 == Gcd(IAbs(y[1]), x[2])
         IN  <<(x[1] \div d1) * (y[1] \div d2), (x[2] \div d2) * (y[2] \div d1)>>
SInv(y) == IF y[1] < 0 THEN <<-y[2], -y[1]>> ELSE <<y[2], y[1]>>
SDiv(x, y) == SMul(x, SInv(y))
SAbs(x) == <<IAbs(x[1]), x[2]>>
SLess(x, y) == x[1] * y[2] < y[1] * x[2]
SLeq(x, y) == x[1] * y[2] <= y[1] * x[2]

(* sqrt of a rational that is a perfect square *)
RECURSIVE ISqrtIn(_, _, _)
ISqrtIn(i, lo, hi) ==
    IF lo = hi THEN lo
    ELSE LET mid == (lo + hi + 1) \div 2
         IN  IF mid <= i \div mid THEN ISqrtIn(i, mid, hi) ELSE ISqrtIn(i, lo, mid - 1)
ISqrt(i) == IF i = 0 THEN 0 ELSE ISqrtIn(i, 1, i)
SSqrt(x) == <<ISqrt(x[1]), ISqrt(x[2])>>

----------------------------------------------------------------------------
(* Eigen vectors and matrices over Scalar: a vector is a tuple, a matrix   *)
(* a tuple of rows.                                                        *)

(* the tuple <<F(1), ..., F(k)>>, k in 1..7: a fixed-size Eigen vector     *)
(* given entry by entry; Mat is the same for a fixed-size matrix            *)
Tup(k, F(_)) ==
    CASE k = 1 -> <<F(1)>>
      [] k = 2 -> <<F(1), F(2)>>
      [] k = 3 -> <<F(1), F(2), F(3)>>
      [] k = 4 -> <<F(1), F(2), F(3), F(4)>>
      [] k = 5 -> <<F(1), F(2), F(3), F(4), F(5)>>
      [] k = 6 -> <<F(1), F(2), F(3), F(4), F(5), F(6)>>
      [] k = 7 -> <<F(1), F(2), F(3), F(4), F(5), F(6), F(7)>>
Mat(r, c, F(_, _)) == LET Row(i) == LET E(j) == F(i, j) IN Tup(c, E) IN Tup(r, Row)

(* F applied to the value of e: a local that is computed once *)
With(e, F(_)) == CHOOSE r \in {F(v) : v \in {e}} : TRUE

RECURSIVE SSum(_, _, _)
SSum(F(_), lo, hi) == IF lo > hi THEN Zero ELSE SAdd(F(lo), SSum(F, lo + 1, hi))

VZero(k) == LET E(i) == Zero IN Tup(k, E)
VAdd(u, v) == LET E(i) == SAdd(u[i], v[i]) IN Tup(Len(u), E)
VSub(u, v) == LET E(i) == SSub(u[i], v[i]) IN Tup(Len(u), E)
VNeg(u) == LET E(i) == SNeg(u[i]) IN Tup(Len(u), E)
VScale(s, u) == LET E(i) == SMul(s, u[i]) IN Tup(Len(u), E)
Dot(u, v) == LET T(i) == SMul(u[i], v[i]) IN SSum(T, 1, Len(u))
Cross(u, v) == << SSub(SMul(u[2], v[3]), SMul(u[3], v[2])),
                  SSub(SMul(u[3], v[1]), SMul(u[1], v[3])),
                  SSub(SMul(u[1], v[2]), SMul(u[2], v[1])) >>

MZero(r, c) == LET E(i, j) == Zero IN Mat(r, c, E)
MIdentity(k) == LET E(i, j) == IF i = j THEN One ELSE Zero IN Mat(k, k, E)
MAdd(A, B) == LET E(i) == VAdd(A[i], B[i]) IN Tup(Len(A), E)
MSub(A, B) == LET E(i) == VSub(A[i], B[i]) IN Tup(Len(A), E)
MNeg(A) == LET E(i) == VNeg(A[i]) IN Tup(Len(A), E)
MScale(s, A) == LET E(i) == VScale(s, A[i]) IN Tup(Len(A), E)
MVec(A, v) == LET E(i) == Dot(A[i], v) IN Tup(Len(A), E)
MMul(A, B) ==
    LET E(i, j) == LET T(k) == SMul(A[i][k], B[k][j]) IN SSum(T, 1, Len(B))
    IN  Mat(Len(A), Len(B[1]), E)

(* the r x c block of A whose top-left corner is (i0, j0), 0-based as in Eigen *)
Block(A, i0, j0, r, c) == LET E(i, j) == A[i0 + i][j0 + j] IN Mat(r, c, E)
(* A with the block at (i0, j0) overwritten by B *)
SetBlock(A, i0, j0, B) ==
    LET E(i, j) == IF /\ i > i0 /\ i <= i0 + Len(B)
                      /\ j > j0 /\ j <= j0 + Len(B[1])
                   THEN B[i - i0][j - j0] ELSE A[i][j]
    IN  Mat(Len(A), Len(A[1]), E)
ColMat(v) == LET E(i) == <<v[i]>> IN Tup(Len(v), E)
Segment(v, i0, k) == LET E(i) == v[i0 + i] IN Tup(k, E)

----------------------------------------------------------------------------
(* Collaborators of sim3.hpp (so3.hpp, rxso3.hpp), as the documentation    *)
(* describes them.  A quaternion is <<x, y, z, w>> (Eigen's coefficient    *)
(* order: the three imaginary parts, then the real part).                  *)

(* SO3Group::hat: the skew-symmetric (cross product) matrix of a 3-vector *)
SO3hat(w) == << <<Zero, SNeg(w[3]), w[2]>>,
                <<w[3], Zero, SNeg(w[1])>>,
                <<SNeg(w[2]), w[1], Zero>> >>

QVec(q) == <<q[1], q[2], q[3]>>
QuatMul(a, b) ==
    LET v == VAdd(VAdd(VScale(a[4], QVec(b)), VScale(b[4], QVec(a))),
                  Cross(QVec(a), QVec(b)))
    IN  <<v[1], v[2], v[3], SSub(SMul(a[4], b[4]), Dot(QVec(a), QVec(b)))>>
QuatSquaredNorm(q) == Dot(q, q)
QuatIdentity == <<Zero, Zero, Zero, One>>

(* RxSO3GroupBase::scale: the norm of the quaternion *)
RxSO3scale(q) == SSqrt(QuatSquaredNorm(q))

(* RxSO3GroupBase::rotationMatrix: the rotation of the normalised quaternion *)
RxSO3rotationMatrix(q) ==
    LET x == q[1]  y == q[2]  z == q[3]  w == q[4]
        two == Int2S(2)
        xx == SMul(x, x)  yy == SMul(y, y)  zz == SMul(z, z)  ww == SMul(w, w)
        xy == SMul(x, y)  xz == SMul(x, z)  yz == SMul(y, z)
        wx == SMul(w, x)  wy == SMul(w, y)  wz == SMul(w, z)
        Q == << <<SSub(SAdd(ww, xx), SAdd(yy, zz)),
                  SMul(two, SSub(xy, wz)),
                  SMul(two, SAdd(xz, wy))>>,
                <<SMul(two, SAdd(xy, wz)),
                  SSub(SAdd(ww, yy), SAdd(xx, zz)),
                  SMul(two, SSub(yz, wx))>>,
                <<SMul(two, SSub(xz, wy)),
                  SMul(two, SAdd(yz, wx)),
                  SSub(SAdd(ww, zz), SAdd(xx, yy))>> >>
    IN  MScale(SDiv(One, QuatSquaredNorm(q)), Q)

(* RxSO3GroupBase::matrix: scale * rotation *)
RxSO3matrix(q) == MScale(RxSO3scale(q), RxSO3rotationMatrix(q))

(* RxSO3GroupBase::operator*(Point): rotate and scale a point *)
RxSO3act(q, p) == MVec(RxSO3matrix(q), p)

(* RxSO3GroupBase::operator*= / operator*: quaternion product *)
RxSO3mul(a, b) == QuatMul(a, b)

(* RxSO3GroupBase::inverse: conjugate / squared norm *)
RxSO3inverse(q) ==
    LET k == SDiv(One, QuatSquaredNorm(q))
    IN  <<SMul(k, SNeg(q[1])), SMul(k, SNeg(q[2])), SMul(k, SNeg(q[3])),
          SMul(k, q[4])>>

(* RxSO3GroupBase::setScale: the quaternion is normalised and multiplied  *)
(* by the new scale                                                       *)
RxSO3setScale(q, s) == VScale(SDiv(s, RxSO3scale(q)), q)

(* RxSO3GroupBase::hat of (omega, sigma): skew(omega) + sigma * I *)
RxSO3hat(a) == MAdd(SO3hat(<<a[1], a[2], a[3]>>), MScale(a[4], MIdentity(3)))

(* RxSO3GroupBase::vee: (omega, sigma) read off a 3x3 matrix *)
RxSO3vee(M) == <<M[3][2], M[1][3], M[2][1], M[1][1]>>

----------------------------------------------------------------------------
(* Sim3 elements and the member functions of Sim3GroupBase                 *)

DoF == 7
num_parameters == 7
N == 4

Sim3(q, t) == [rxso3 |-> q, translation |-> t]

(* Sim3Group(): identity rotation, scale one, zero translation *)
Sim3Default == Sim3(QuatIdentity, VZero(3))

scale(A) == RxSO3scale(A.rxso3)
rotationMatrix(A) == RxSO3rotationMatrix(A.rxso3)

(* operator*= on a store `st` of objects: receiver `i`, argument `j`       *)
(* (a reference: j = i when an object is multiplied by itself).  The two   *)
(* statements run in order, the second reads what the first wrote.         *)
operatorMulAssignSwapped(st, i, j) ==
    LET st1 == [st EXCEPT ![i].rxso3 = RxSO3mul(st[i].rxso3, st[j].rxso3)]
    IN  [st1 EXCEPT ![i].translation =
            VAdd(st1[i].translation,
                 RxSO3act(st1[i].rxso3, st1[j].translation))]

operatorMulAssign(st, i, j) ==
    LET st1 == [st EXCEPT ![i].translation =
                    VAdd(st[i].translation,
                         RxSO3act(st[i].rxso3, st[j].translation))]
    IN  [st1 EXCEPT ![i].rxso3 = RxSO3mul(st1[i].rxso3, st1[j].rxso3)]

(* operator*(other) on a store of objects: `result` is a copy of the      *)
(* receiver, multiplied in place, and is returned                         *)
WithObject(st, k, A) == [s \in DOMAIN st \cup {k} |-> IF s = k THEN A ELSE st[s]]

operatorMulStoreInPlace(st, i, j) ==
    LET st1 == operatorMulAssign(st, i, j)
    IN  WithObject(st1, "result", st1[i])

operatorMulStore(st, i, j) ==
    operatorMulAssign(WithObject(st, "result", st[i]), "result", j)

operatorMul(A, B) ==
    operatorMulStore([self |-> A, other |-> B], "self", "other").result

(* operator=(other) on a store of objects *)
operatorAssign(st, i, j) ==
    LET st1 == [st EXCEPT ![i].rxso3 = st[j].rxso3]
    IN  [st1 EXCEPT ![i].translation = st1[j].translation]

(* setScale(scale) *)
setScale(A, s) == Sim3(RxSO3setScale(A.rxso3, s), A.translation)

(* data(): the parameters of rxso3_, then those of translation_ *)
data(A) == A.rxso3 \o A.translation


(* operator*(Point) *)
operatorMulPointTranslateFirst(A, p) == RxSO3act(A.rxso3, VAdd(p, A.translation))

operatorMulPoint(A, p) == VAdd(RxSO3act(A.rxso3, p), A.translation)

(* inverse() *)
inverseNoRotate(A) ==
    Sim3(RxSO3inverse(A.rxso3), VScale(Int2S(-1), A.translation))

inverse(A) ==
    LET invR == RxSO3inverse(A.rxso3)
    IN  Sim3(invR, RxSO3act(invR, VScale(Int2S(-1), A.translation)))

(* matrix() *)
matrixNoIdentity(A) ==
    LET h0 == MZero(N, N)
        h1 == SetBlock(h0, 0, 0, RxSO3matrix(A.rxso3))
    IN  SetBlock(h1, 0, 3, ColMat(A.translation))

matrix(A) ==
    LET h0 == MIdentity(N)
        h1 == SetBlock(h0, 0, 0, RxSO3matrix(A.rxso3))
    IN  SetBlock(h1, 0, 3, ColMat(A.translation))

(* Adj() *)
AdjUnscaled(A) ==
    LET R == RxSO3rotationMatrix(A.rxso3)
        r0 == MZero(DoF, DoF)
        r1 == SetBlock(r0, 0, 0, R)
        r2 == SetBlock(r1, 0, 3, MMul(SO3hat(A.translation), R))
        r3 == SetBlock(r2, 0, 6, ColMat(VNeg(A.translation)))
        r4 == SetBlock(r3, 3, 3, R)
    IN  SetBlock(r4, 6, 6, <<<<One>>>>)

Adj(A) ==
    LET R == RxSO3rotationMatrix(A.rxso3)
        r0 == MZero(DoF, DoF)
        r1 == SetBlock(r0, 0, 0, MScale(scale(A), R))
        r2 == SetBlock(r1, 0, 3, MMul(SO3hat(A.translation), R))
        r3 == SetBlock(r2, 0, 6, ColMat(VNeg(A.translation)))
        r4 == SetBlock(r3, 3, 3, R)
    IN  SetBlock(r4, 6, 6, <<<<One>>>>)

----------------------------------------------------------------------------
(* The static functions of Sim3GroupBase on the tangent space.  A tangent  *)
(* is a 7-tuple (upsilon, omega, sigma).  A local that the source declares *)
(* without initialising starts as Uninit in every entry.                   *)

Uninit == <<0, 0>>
MUninit(r, c) == LET E(i, j) == Uninit IN Mat(r, c, E)
VUninit(k) == LET E(i) == Uninit IN Tup(k, E)
SetSegment(v, i0, w) ==
    LET E(i) == IF i > i0 /\ i <= i0 + Len(w) THEN w[i - i0] ELSE v[i]
    IN  Tup(Len(v), E)
SetRow(A, r, w) == LET E(i) == IF i = r + 1 THEN w ELSE A[i] IN Tup(Len(A), E)

(* matrix3x4() *)
matrix3x4(A) ==
    LET m0 == MUninit(3, N)
        m1 == SetBlock(m0, 0, 0, RxSO3matrix(A.rxso3))
    IN  SetBlock(m1, 0, 3, ColMat(A.translation))

(* Eigen::Map<Sim3Group>(coeffs): rxso3_ views the scalars from coeffs on, *)
(* translation_ those from coeffs + RxSO3Group::num_parameters on.  Map    *)
(* reads the object the view shows, MapWrite stores an object through it.  *)
RxSO3num_parameters == 4

MapTranslationFirst(c) == Sim3(Segment(c, 3, RxSO3num_parameters), Segment(c, 0, 3))

Map(c) ==
    Sim3(Segment(c, 0, RxSO3num_parameters), Segment(c, RxSO3num_parameters, 3))

MapWrite(c, A) ==
    SetSegment(SetSegment(c, 0, A.rxso3), RxSO3num_parameters, A.translation)

head3(v) == Segment(v, 0, 3)
tail4(v) == Segment(v, Len(v) - 4, 4)

(* hat(v) *)
hatNoSigma(v) ==
    LET O0 == MUninit(N, N)
        O1 == SetBlock(O0, 0, 0, SO3hat(Segment(v, 3, 3)))
        O2 == SetBlock(O1, 0, 3, ColMat(head3(v)))
    IN  SetRow(O2, 3, VZero(N))

hat(v) ==
    LET O0 == MUninit(N, N)
        O1 == SetBlock(O0, 0, 0, RxSO3hat(tail4(v)))
        O2 == SetBlock(O1, 0, 3, ColMat(head3(v)))
    IN  SetRow(O2, 3, VZero(N))

(* vee(Omega) *)
vee(Omega) ==
    LET u0 == VUninit(DoF)
        u1 == SetSegment(u0, 0, [i \in 1..3 |-> Omega[i][4]])
    IN  SetSegment(u1, DoF - 4, RxSO3vee(Block(Omega, 0, 0, 3, 3)))

(* lieBracket(a, b) *)
lieBracketNoScaleTerms(a, b) ==
    LET upsilon1 == head3(a)          upsilon2 == head3(b)
        omega1 == Segment(a, 3, 3)    omega2 == Segment(b, 3, 3)
        r0 == VUninit(DoF)
        r1 == SetSegment(r0, 0,
                VAdd(MVec(SO3hat(omega1), upsilon2),
                     MVec(SO3hat(upsilon1), omega2)))
        r2 == SetSegment(r1, 3, Cross(omega1, omega2))
    IN  SetSegment(r2, 6, <<Zero>>)

lieBracketSymmetric(a, b) ==
    LET upsilon1 == head3(a)          upsilon2 == head3(b)
        omega1 == Segment(a, 3, 3)    omega2 == Segment(b, 3, 3)
        sigma1 == a[7]                sigma2 == b[7]
        r0 == VUninit(DoF)
        r1 == SetSegment(r0, 0,
                VAdd(VAdd(VAdd(MVec(SO3hat(omega1), upsilon2),
                               MVec(SO3hat(upsilon1), omega2)),
                          VScale(sigma1, upsilon2)),
                     VScale(sigma2, upsilon1)))
        r2 == SetSegment(r1, 3, Cross(omega1, omega2))
    IN  SetSegment(r2, 6, <<Zero>>)

lieBracket(a, b) ==
    LET upsilon1 == head3(a)          upsilon2 == head3(b)
        omega1 == Segment(a, 3, 3)    omega2 == Segment(b, 3, 3)
        sigma1 == a[7]                sigma2 == b[7]
        r0 == VUninit(DoF)
        r1 == SetSegment(r0, 0,
                VSub(VAdd(VAdd(MVec(SO3hat(omega1), upsilon2),
                               MVec(SO3hat(upsilon1), omega2)),
                          VScale(sigma1, upsilon2)),
                     VScale(sigma2, upsilon1)))
        r2 == SetSegment(r1, 3, Cross(omega1, omega2))
    IN  SetSegment(r2, 6, <<Zero>>)

(* d_lieBracketab_by_d_a(b) *)
d_lieBracketab_by_d_a_NoColumn(b) ==
    LET upsilon2 == head3(b)
        omega2 == Segment(b, 3, 3)
        sigma2 == b[7]
        r0 == MZero(DoF, DoF)
        r1 == SetBlock(r0, 0, 0,
                MSub(MNeg(SO3hat(omega2)), MScale(sigma2, MIdentity(3))))
        r2 == SetBlock(r1, 0, 3, MNeg(SO3hat(upsilon2)))
    IN  SetBlock(r2, 3, 3, MNeg(SO3hat(omega2)))

d_lieBracketab_by_d_a(b) ==
    LET upsilon2 == head3(b)
        omega2 == Segment(b, 3, 3)
        sigma2 == b[7]
        r0 == MZero(DoF, DoF)
        r1 == SetBlock(r0, 0, 0,
                MSub(MNeg(SO3hat(omega2)), MScale(sigma2, MIdentity(3))))
        r2 == SetBlock(r1, 0, 3, MNeg(SO3hat(upsilon2)))
        r3 == SetBlock(r2, 0, DoF - 1, ColMat(upsilon2))
    IN  SetBlock(r3, 3, 3, MNeg(SO3hat(omega2)))

(* generator(i).  SOPHUS_ENSURE ends the program when its condition is     *)
(* false.  e[i] with i outside 0..6 is an access outside the 7-vector:     *)
(* Eigen's index assertion ends the program in a build that keeps          *)
(* assertions; in a build without them the store lands outside e, and the  *)
(* call returns hat of whatever e then holds (e itself is all zero) or     *)
(* the process is ended by the fault.                                      *)
generatorEnsure(i) == i >= 0 \/ i <= 6

UnitTangent(i) == LET E(k) == IF k = i + 1 THEN One ELSE Zero IN Tup(DoF, E)

generatorOneBased(i) ==
    IF ~generatorEnsure(i)
    THEN {[status |-> "ensure_failed"]}
    ELSE IF i >= 1 /\ i <= DoF
    THEN {[status |-> "returned", value |-> hat(UnitTangent(i - 1))]}
    ELSE {[status |-> "eigen_assert_failed"],
          [status |-> "fault"],
          [status |-> "returned", value |-> hat(UnitTangent(i - 1))]}

generator(i) ==
    IF ~generatorEnsure(i)
    THEN {[status |-> "ensure_failed"]}
    ELSE IF i >= 0 /\ i < DoF
    THEN {[status |-> "returned", value |-> hat(UnitTangent(i))]}
    ELSE {[status |-> "eigen_assert_failed"],
          [status |-> "fault"],
          [status |-> "returned", value |-> hat(UnitTangent(i))]}

----------------------------------------------------------------------------
(* exp, log and their kernels calcW and calcWInv.                          *)
(*                                                                         *)
(* epsilon is SophusConstants<Scalar>::epsilon(), the threshold of every   *)
(* branch test: a positive constant below one.  The model takes 1/16, so   *)
(* that arguments on both sides of epsilon and of its square root have     *)
(* exact squares and cubes.                                                *)

epsilon == Rat(1, 16)

(* sin, cos and exp of the math library, tabulated at the arguments the    *)
(* model uses.  Each (Sin, Cos) pair lies on the unit circle and each      *)
(* value is a rational of small denominator next to the real one.          *)
Sin(x) ==
    CASE x = Zero -> Zero
      [] x = Rat(1, 20) -> Rat(80, 1601)
      [] x = Rat(1, 8) -> Rat(32, 257)
      [] x = Rat(2, 5) -> Rat(5, 13)
      [] x = Rat(13, 20) -> Rat(3, 5)
      [] x = Rat(4, 5) -> Rat(120, 169)
      [] x = Rat(13, 10) -> Rat(24, 25)

Cos(x) ==
    CASE x = Zero -> One
      [] x = Rat(1, 20) -> Rat(1599, 1601)
      [] x = Rat(1, 8) -> Rat(255, 257)
      [] x = Rat(2, 5) -> Rat(12, 13)
      [] x = Rat(13, 20) -> Rat(4, 5)
      [] x = Rat(4, 5) -> Rat(119, 169)
      [] x = Rat(13, 10) -> Rat(7, 25)

Exp(x) ==
    CASE x = Zero -> One
      [] x = Rat(1, 100) -> Rat(101, 100)
      [] x = Rat(1, 16) -> Rat(26161, 24576)
      [] x = Rat(1, 8) -> Rat(145, 128)
      [] x = Rat(1, 4) -> Rat(13, 10)
      [] x = Rat(1, 2) -> Rat(5, 3)
      [] x = Rat(-1, 2) -> Rat(3, 5)

(* log and atan2, the inverses of the tables above *)
Log(x) ==
    CASE x = One -> Zero
      [] x = Rat(101, 100) -> Rat(1, 100)
      [] x = Rat(145, 128) -> Rat(1, 8)
      [] x = Rat(13, 10) -> Rat(1, 4)
      [] x = Rat(5, 3) -> Rat(1, 2)
      [] x = Rat(3, 5) -> Rat(-1, 2)

Atan2(y, x) ==
    CASE y = Zero /\ x = One -> Zero
      [] y = Rat(5, 13) /\ x = Rat(12, 13) -> Rat(2, 5)
      [] y = Rat(3, 5) /\ x = Rat(4, 5) -> Rat(13, 20)

(* RxSO3Group::expAndTheta of (omega, sigma): the quaternion              *)
(* exp(sigma) * (sin(theta/2) * omega / theta, cos(theta/2)), and theta   *)
RxSO3expAndTheta(a) ==
    LET omega == <<a[1], a[2], a[3]>>
        theta == SSqrt(Dot(omega, omega))
        half_theta == SMul(Half, theta)
        k == IF theta = Zero THEN Half ELSE SDiv(Sin(half_theta), theta)
        v == VScale(k, omega)
        Result(q) == [rxso3 |-> q, theta |-> theta]
    IN  With(VScale(Exp(a[4]), <<v[1], v[2], v[3], Cos(half_theta)>>), Result)

(* RxSO3Group::logAndTheta: sigma is the log of the norm, omega the       *)
(* rotation vector of the normalised quaternion, theta its length         *)
RxSO3logAndTheta(q) ==
    LET sigma == Log(RxSO3scale(q))
        u == VScale(SDiv(One, RxSO3scale(q)), q)
        nrm == SSqrt(Dot(QVec(u), QVec(u)))
        theta == SMul(Int2S(2), Atan2(nrm, u[4]))
        omega == IF nrm = Zero THEN VZero(3)
                 ELSE VScale(SDiv(theta, nrm), QVec(u))
    IN  [omega_sigma |-> Append(omega, sigma), theta |-> theta]

(* the branch tests of calcW *)
calcWSigmaSmall(sigma) == SLess(SAbs(sigma), epsilon)
calcWThetaSmall(theta) == SLess(SAbs(theta), epsilon)

(* calcW: the coefficients A, B, C of Omega, Omega^2 and I *)
calcWCoefs(theta, sigma, scl) ==
    IF calcWSigmaSmall(sigma)
    THEN IF calcWThetaSmall(theta)
         THEN [A |-> Half, B |-> Rat(1, 6), C |-> One]
         ELSE LET theta_sq == SMul(theta, theta)
              IN  [A |-> SDiv(SSub(One, Cos(theta)), theta_sq),
                   B |-> SDiv(SSub(theta, Sin(theta)), SMul(theta_sq, theta)),
                   C |-> One]
    ELSE LET C == SDiv(SSub(scl, One), sigma)
         IN  IF calcWThetaSmall(theta)
             THEN LET sigma_sq == SMul(sigma, sigma)
                  IN  [A |-> SDiv(SAdd(SMul(SSub(sigma, One), scl), One),
                                  sigma_sq),
                       B |-> SDiv(SMul(SAdd(SSub(SMul(SMul(Half, sigma), sigma),
                                                 sigma), One), scl),
                                  SMul(sigma_sq, sigma)),
                       C |-> C]
             ELSE LET theta_sq == SMul(theta, theta)
                      a == SMul(scl, Sin(theta))
                      b == SMul(scl, Cos(theta))
                      c == SAdd(theta_sq, SMul(sigma, sigma))
                  IN  [A |-> SDiv(SAdd(SMul(a, sigma),
                                       SMul(SSub(One, b), theta)),
                                  SMul(theta, c)),
                       B |-> SDiv(SMul(SSub(C, SDiv(SAdd(SMul(SSub(b, One), sigma),
                                                         SMul(a, theta)), c)),
                                       One),
                                  theta_sq),
                       C |-> C]

(* A * Omega + B * Omega^2 + C * I *)
Kernel(A, B, C, Omega) ==
    MAdd(MAdd(MScale(A, Omega), MScale(B, MMul(Omega, Omega))),
         MScale(C, MIdentity(3)))

calcW(theta, sigma, scl, Omega) ==
    LET k == calcWCoefs(theta, sigma, scl)
    IN  Kernel(k.A, k.B, k.C, Omega)

(* the branch tests of calcWInv *)
calcWInvSigmaSmallSigned(sigma) == SLess(sigma, epsilon)

calcWInvSigmaSmall(sigma) == SLess(SAbs(SMul(sigma, sigma)), epsilon)
calcWInvThetaSmall(theta) == SLess(SAbs(SMul(theta, theta)), epsilon)

(* calcWInv: the coefficients a, b, c of Omega, Omega^2 and I *)
calcWInvCoefs(theta, sigma, scl) ==
    LET two == Int2S(2)
        scale_sq == SMul(scl, scl)
        theta_sq == SMul(theta, theta)
    IN  IF calcWInvSigmaSmall(sigma)
        THEN LET c == SSub(One, SMul(Half, sigma))
                 a == SNeg(Half)
             IN  IF calcWInvThetaSmall(theta)
                 THEN [a |-> a, b |-> Rat(1, 12), c |-> c]
                 ELSE LET sin_theta == Sin(theta)
                          cos_theta == Cos(theta)
                      IN  [a |-> a,
                           b |-> SDiv(SSub(SAdd(SMul(theta, sin_theta),
                                                SMul(two, cos_theta)), two),
                                      SMul(SMul(two, theta_sq),
                                           SSub(cos_theta, One))),
                           c |-> c]
        ELSE LET scale_cu == SMul(scale_sq, scl)
                 c == SDiv(sigma, SSub(scl, One))
             IN  IF calcWInvThetaSmall(theta)
                 THEN [a |-> SDiv(SSub(SAdd(SMul(SNeg(sigma), scl), scl), One),
                                  SMul(SSub(scl, One), SSub(scl, One))),
                       b |-> SDiv(SAdd(SAdd(SSub(SMul(scale_sq, sigma),
                                                 SMul(two, scale_sq)),
                                            SMul(scl, sigma)),
                                       SMul(two, scl)),
                                  SSub(SAdd(SSub(SMul(two, scale_cu),
                                                 SMul(Int2S(6), scale_sq)),
                                            SMul(Int2S(6), scl)), two)),
                       c |-> c]
                 ELSE LET sin_theta == Sin(theta)
                          cos_theta == Cos(theta)
                          s_sin_theta == SMul(scl, sin_theta)
                          s_cos_theta == SMul(scl, cos_theta)
                      IN  [a |-> SDiv(SSub(SSub(SMul(theta, s_cos_theta), theta),
                                           SMul(sigma, s_sin_theta)),
                                      SMul(theta,
                                           SAdd(SSub(scale_sq,
                                                     SMul(two, s_cos_theta)),
                                                One))),
                           b |-> SDiv(
                               SMul(SNeg(scl),
                                    SSub(SAdd(SSub(SAdd(SSub(
                                        SMul(theta, s_sin_theta),
                                        SMul(theta, sin_theta)),
                                        SMul(sigma, s_cos_theta)),
                                        SMul(scl, sigma)),
                                        SMul(sigma, cos_theta)),
                                        sigma)),
                               SMul(theta_sq,
                                    SSub(SAdd(SAdd(SSub(SSub(
                                        scale_cu,
                                        SMul(SMul(two, scl), s_cos_theta)),
                                        scale_sq),
                                        SMul(two, s_cos_theta)),
                                        scl),
                                        One))),
                           c |-> c]

calcWInv(theta, sigma, scl, Omega) ==
    LET k == calcWInvCoefs(theta, sigma, scl)
    IN  Kernel(k.a, k.b, k.c, Omega)

(* exp(a) *)
exp(a) ==
    LET upsilon == Segment(a, 0, 3)
        omega == Segment(a, 3, 3)
        sigma == a[7]
        Omega == SO3hat(omega)
        Rest(e) ==
            LET W == calcW(e.theta, sigma, RxSO3scale(e.rxso3), Omega)
            IN  Sim3(e.rxso3, MVec(W, upsilon))
    IN  With(RxSO3expAndTheta(tail4(a)), Rest)

(* log(other) *)
log(other) ==
    LET Store(l, W_inv) ==
            LET r0 == VUninit(DoF)
                r1 == SetSegment(r0, 0, MVec(W_inv, other.translation))
                r2 == SetSegment(r1, 3, head3(l.omega_sigma))
            IN  SetSegment(r2, 6, <<l.omega_sigma[4]>>)
        Rest(l) ==
            LET omega == head3(l.omega_sigma)
                sigma == l.omega_sigma[4]
                Done(W_inv) == Store(l, W_inv)
            IN  With(calcWInv(l.theta, sigma, scale(other), SO3hat(omega)),
                     Done)
    IN  With(RxSO3logAndTheta(other.rxso3), Rest)

----------------------------------------------------------------------------
(* Inputs.  Scalars are exact; the quaternions are chosen with a rational  *)
(* norm (2, 3, 1/2, 1) and rotations about different axes, the vectors     *)
(* with and without zero coordinates.                                      *)

MaxCoef == 2
MaxCalls == 1

IVec(v) == LET E(i) == Int2S(v[i]) IN Tup(Len(v), E)
IMat(M) == LET E(i) == IVec(M[i]) IN Tup(Len(M), E)

Quats == { IVec(<<1, 1, 1, 1>>),
           IVec(<<2, 2, 0, 1>>),
           <<Half, Zero, Zero, Zero>>,
           <<Zero, Rat(3, 5), Zero, Rat(4, 5)>> }
Vecs == { IVec(<<1, 2, 3>>), IVec(<<-2, 0, 1>>) }

(* Sim3Group(quaternion, translation) on a non-zero quaternion, and the    *)
(* default constructor                                                     *)
InitElems == {Sim3(q, t) : q \in Quats, t \in Vecs} \cup {Sim3Default}

Slots == {"A", "B"}
NoCall == [op |-> "none"]
TangentZero == VZero(DoF)

(* tangents with entries in -1..MaxCoef, at most k of them non-zero *)
NonZeros(v) == Cardinality({i \in 1..DoF : v[i] # 0})
SparseTangents(k) ==
    {IVec(v) : v \in {w \in [1..DoF -> -1..MaxCoef] : NonZeros(w) <= k}}
TangentsA == SparseTangents(2)
TangentsB == SparseTangents(1)

----------------------------------------------------------------------------
(* Calls on a store of two Sim3 objects; n counts the calls made           *)

CallMulAssign(i, j) ==
    /\ n < MaxCalls
    /\ g' = operatorMulAssign(g, i, j)
    /\ res' = [op |-> "mulassign", self |-> i, other |-> j, pre |-> g]
    /\ n' = n + 1
    /\ UNCHANGED <<ta, tb, coeffs>>

CallMul(i, j) ==
    /\ n < MaxCalls
    /\ res' = [op |-> "mul", self |-> i, other |-> j,
               value |-> operatorMul(g[i], g[j])]
    /\ n' = n + 1
    /\ UNCHANGED <<g, ta, tb, coeffs>>

CallInverse(i) ==
    /\ n < MaxCalls
    /\ res' = [op |-> "inverse", self |-> i, value |-> inverse(g[i])]
    /\ n' = n + 1
    /\ UNCHANGED <<g, ta, tb, coeffs>>

CallMulPoint(i, p) ==
    /\ n < MaxCalls
    /\ res' = [op |-> "mulpoint", self |-> i, p |-> p,
               value |-> operatorMulPoint(g[i], p)]
    /\ n' = n + 1
    /\ UNCHANGED <<g, ta, tb, coeffs>>

CallAdj(i) ==
    /\ n < MaxCalls
    /\ res' = [op |-> "Adj", self |-> i, value |-> Adj(g[i])]
    /\ n' = n + 1
    /\ UNCHANGED <<g, ta, tb, coeffs>>

Init ==
    /\ g \in [Slots -> InitElems]
    /\ res = NoCall
    /\ n = 0
    /\ ta = TangentZero
    /\ tb = TangentZero
    /\ coeffs = data(Sim3Default)

Next ==
    \/ \E i \in Slots, j \in Slots : CallMulAssign(i, j)
    \/ \E i \in Slots, j \in Slots : CallMul(i, j)
    \/ \E i \in Slots : CallInverse(i)
    \/ \E i \in Slots, p \in Vecs : CallMulPoint(i, p)
    \/ \E i \in Slots : CallAdj(i)

Spec == Init /\ [][Next]_vars

----------------------------------------------------------------------------
(* Calls of the static tangent-space functions on tangents ta and tb: one  *)
(* call in a run                                                           *)

(* the generators G_0 .. G_6 as the documentation of generator() lists them *)
DocG(i) ==
    CASE i = 0 -> IMat(<< <<0, 0, 0, 1>>, <<0, 0, 0, 0>>, <<0, 0, 0, 0>>, <<0, 0, 0, 0>> >>)
      [] i = 1 -> IMat(<< <<0, 0, 0, 0>>, <<0, 0, 0, 1>>, <<0, 0, 0, 0>>, <<0, 0, 0, 0>> >>)
      [] i = 2 -> IMat(<< <<0, 0, 0, 0>>, <<0, 0, 0, 0>>, <<0, 0, 0, 1>>, <<0, 0, 0, 0>> >>)
      [] i = 3 -> IMat(<< <<0, 0, 0, 0>>, <<0, 0, -1, 0>>, <<0, 1, 0, 0>>, <<0, 0, 0, 0>> >>)
      [] i = 4 -> IMat(<< <<0, 0, 1, 0>>, <<0, 0, 0, 0>>, <<-1, 0, 0, 0>>, <<0, 0, 0, 0>> >>)
      [] i = 5 -> IMat(<< <<0, -1, 0, 0>>, <<1, 0, 0, 0>>, <<0, 0, 0, 0>>, <<0, 0, 0, 0>> >>)
      [] i = 6 -> IMat(<< <<1, 0, 0, 0>>, <<0, 1, 0, 0>>, <<0, 0, 1, 0>>, <<0, 0, 0, 0>> >>)

(* sum over i = lo..hi of v_i * G(i) *)
RECURSIVE GenSum(_, _, _, _)
GenSum(G(_), v, lo, hi) ==
    IF lo > hi THEN MZero(N, N)
    ELSE MAdd(MScale(v[lo + 1], G(lo)), GenSum(G, v, lo + 1, hi))

(* arguments of vee: the matrix of v in the documented basis, and the same *)
(* matrix with one entry raised by one                                     *)
Bump(M, r, c) == [M EXCEPT ![r][c] = SAdd(M[r][c], One)]
VeeArgs(v) ==
    LET M == GenSum(DocG, v, 0, DoF - 1)
    IN  {M, Bump(M, 1, 1), Bump(M, 1, 2), Bump(M, 2, 4), Bump(M, 4, 3)}

(* arguments of generator: every index, one before and two past the range *)
GeneratorArgs == -1..(DoF + 1)

CallHat ==
    /\ res = NoCall
    /\ res' = [op |-> "hat", value |-> hat(ta)]
    /\ UNCHANGED <<g, n, ta, tb, coeffs>>

CallVee ==
    /\ res = NoCall
    /\ \E Omega \in VeeArgs(ta) :
          res' = [op |-> "vee", Omega |-> Omega, value |-> vee(Omega)]
    /\ UNCHANGED <<g, n, ta, tb, coeffs>>

CallLieBracket ==
    /\ res = NoCall
    /\ res' = [op |-> "lieBracket", value |-> lieBracket(ta, tb)]
    /\ UNCHANGED <<g, n, ta, tb, coeffs>>

CallDLieBracket ==
    /\ res = NoCall
    /\ res' = [op |-> "d_lieBracketab_by_d_a", value |-> d_lieBracketab_by_d_a(tb)]
    /\ UNCHANGED <<g, n, ta, tb, coeffs>>

CallGenerator(i) ==
    /\ res = NoCall
    /\ \E o \in generator(i) : res' = [op |-> "generator", i |-> i, outcome |-> o]
    /\ UNCHANGED <<g, n, ta, tb, coeffs>>

InitAlg ==
    /\ g = [s \in Slots |-> Sim3Default]
    /\ res = NoCall
    /\ n = 0
    /\ ta \in TangentsA
    /\ tb \in TangentsB
    /\ coeffs = data(Sim3Default)

NextAlg ==
    \/ CallHat
    \/ CallVee
    \/ CallLieBracket
    \/ CallDLieBracket
    \/ \E i \in GeneratorArgs : CallGenerator(i)

SpecAlg == InitAlg /\ [][NextAlg]_vars

----------------------------------------------------------------------------
(* Calls of exp, log and the two kernels on the tangent ta.  The rotation  *)
(* vectors have theta = 0, 1/20 (below epsilon), 1/8 (between epsilon and  *)
(* its square root), 4/5 and 13/10 (large); sigma likewise, of both signs. *)

Omegas == { VZero(3),
            <<Zero, Rat(1, 20), Zero>>,
            <<Rat(1, 8), Zero, Zero>>,
            <<Zero, Zero, Rat(4, 5)>>,
            <<Rat(13, 10), Zero, Zero>> }
Sigmas == {Zero, Rat(1, 100), Rat(1, 8), Rat(1, 4), Rat(1, 2), Rat(-1, 2)}
Upsilons == {IVec(<<1, 0, 0>>), IVec(<<1, 2, 3>>)}

(* every omega with every sigma, and sigma = epsilon itself, the first    *)
(* sigma calcW does not take as small, with the thetas below epsilon      *)
OmegaSigmas ==
    (Omegas \X Sigmas) \cup ({VZero(3), <<Zero, Rat(1, 20), Zero>>} \X {epsilon})

KernelTangents ==
    {<<u[1], u[2], u[3], p[1][1], p[1][2], p[1][3], p[2]>> :
        u \in Upsilons, p \in OmegaSigmas}

(* theta = |omega| of a tangent *)
Theta(a) == SSqrt(Dot(Segment(a, 3, 3), Segment(a, 3, 3)))

(* the tangents whose quaternion the tables give exactly *)
ExpTangents ==
    {a \in KernelTangents :
        /\ Theta(a) \in {Zero, Rat(4, 5), Rat(13, 10)}
        /\ a[7] # epsilon}

CallExp ==
    /\ res = NoCall
    /\ ta \in ExpTangents
    /\ res' = [op |-> "exp", a |-> ta, value |-> exp(ta)]
    /\ UNCHANGED <<g, n, ta, tb, coeffs>>

CallLog ==
    /\ res.op = "exp"
    /\ res' = [op |-> "log", other |-> res.value, value |-> log(res.value)]
    /\ UNCHANGED <<g, n, ta, tb, coeffs>>

CallLogOf(i) ==
    /\ res = NoCall
    /\ res' = [op |-> "log_of", other |-> g[i], value |-> log(g[i])]
    /\ UNCHANGED <<g, n, ta, tb, coeffs>>

CallExpOfLog ==
    /\ res.op = "log_of"
    /\ res' = [op |-> "exp_log", other |-> res.other, value |-> exp(res.value)]
    /\ UNCHANGED <<g, n, ta, tb, coeffs>>

CallCalcW ==
    /\ res = NoCall
    /\ res' = [op |-> "calcW", theta |-> Theta(ta), sigma |-> ta[7],
               coefs |-> calcWCoefs(Theta(ta), ta[7], Exp(ta[7])),
               value |-> calcW(Theta(ta), ta[7], Exp(ta[7]),
                               SO3hat(Segment(ta, 3, 3)))]
    /\ UNCHANGED <<g, n, ta, tb, coeffs>>

CallCalcWInv ==
    /\ res = NoCall
    /\ res' = [op |-> "calcWInv", theta |-> Theta(ta), sigma |-> ta[7],
               coefs |-> calcWInvCoefs(Theta(ta), ta[7], Exp(ta[7])),
               value |-> calcWInv(Theta(ta), ta[7], Exp(ta[7]),
                                  SO3hat(Segment(ta, 3, 3)))]
    /\ UNCHANGED <<g, n, ta, tb, coeffs>>

(* object A is built by Sim3Group(quaternion, translation) from the       *)
(* quaternion of the rotation-scale part of ta and the vector upsilon     *)
KernelElem(a) ==
    IF a \in ExpTangents
    THEN Sim3(RxSO3expAndTheta(tail4(a)).rxso3, head3(a))
    ELSE Sim3Default

InitKer ==
    /\ ta \in KernelTangents
    /\ g = [s \in Slots |-> IF s = "A" THEN KernelElem(ta) ELSE Sim3Default]
    /\ res = NoCall
    /\ n = 0
    /\ tb = TangentZero
    /\ coeffs = data(Sim3Default)

NextKer ==
    \/ CallExp
    \/ CallLog
    \/ CallLogOf("A")
    \/ CallExpOfLog
    \/ CallCalcW
    \/ CallCalcWInv

SpecKer == InitKer /\ [][NextKer]_vars

----------------------------------------------------------------------------
(* Sequences of operations on a store of two objects A and B and the       *)
(* object `result` that operator* and inverse return.  n counts the calls. *)

MaxOps == 2

RepSlots == Slots \cup {"result"}
RepElems == { Sim3(IVec(<<1, 1, 1, 1>>), IVec(<<1, 2, 3>>)),
              Sim3(<<Half, Zero, Zero, Zero>>, IVec(<<-2, 0, 1>>)) }
RepScales == {Int2S(2), Half}
RepPoint == IVec(<<1, 2, 3>>)

RepMulAssign(i, j) ==
    /\ n < MaxOps
    /\ g' = operatorMulAssign(g, i, j)
    /\ res' = [op |-> "mulassign", self |-> i, other |-> j]
    /\ n' = n + 1
    /\ UNCHANGED <<ta, tb, coeffs>>

RepMul(i, j) ==
    /\ n < MaxOps
    /\ g' = operatorMulStore(g, i, j)
    /\ res' = [op |-> "mul", self |-> i, other |-> j]
    /\ n' = n + 1
    /\ UNCHANGED <<ta, tb, coeffs>>

RepInverse(i) ==
    /\ n < MaxOps
    /\ g' = [g EXCEPT !["result"] = inverse(g[i])]
    /\ res' = [op |-> "inverse", self |-> i]
    /\ n' = n + 1
    /\ UNCHANGED <<ta, tb, coeffs>>

RepAssign(i, j) ==
    /\ n < MaxOps
    /\ g' = operatorAssign(g, i, j)
    /\ res' = [op |-> "assign", self |-> i, other |-> j]
    /\ n' = n + 1
    /\ UNCHANGED <<ta, tb, coeffs>>

RepSetScale(i, s) ==
    /\ n < MaxOps
    /\ g' = [g EXCEPT ![i] = setScale(g[i], s)]
    /\ res' = [op |-> "setScale", self |-> i, scale |-> s]
    /\ n' = n + 1
    /\ UNCHANGED <<ta, tb, coeffs>>

RepMatrix(i) ==
    /\ n < MaxOps
    /\ res' = [op |-> "matrix", self |-> i, value |-> matrix(g[i])]
    /\ n' = n + 1
    /\ UNCHANGED <<g, ta, tb, coeffs>>

RepMatrix3x4(i) ==
    /\ n < MaxOps
    /\ res' = [op |-> "matrix3x4", self |-> i, value |-> matrix3x4(g[i])]
    /\ n' = n + 1
    /\ UNCHANGED <<g, ta, tb, coeffs>>

RepMulPoint(i) ==
    /\ n < MaxOps
    /\ res' = [op |-> "mulpoint", self |-> i,
               value |-> operatorMulPoint(g[i], RepPoint)]
    /\ n' = n + 1
    /\ UNCHANGED <<g, ta, tb, coeffs>>

RepAdj(i) ==
    /\ n < MaxOps
    /\ res' = [op |-> "Adj", self |-> i, value |-> Adj(g[i])]
    /\ n' = n + 1
    /\ UNCHANGED <<g, ta, tb, coeffs>>

(* log() on the elements that the tables of Log and Atan2 cover *)
RepLog(i) ==
    /\ g[i].rxso3 = QuatIdentity
    /\ n < MaxOps
    /\ res' = [op |-> "log", self |-> i, value |-> log(g[i])]
    /\ n' = n + 1
    /\ UNCHANGED <<g, ta, tb, coeffs>>

(* a static function: hat of a tangent *)
RepHat(v) ==
    /\ n < MaxOps
    /\ res' = [op |-> "hat", a |-> v, value |-> hat(v)]
    /\ n' = n + 1
    /\ UNCHANGED <<g, ta, tb, coeffs>>

InitRep ==
    /\ g \in [RepSlots -> RepElems \cup {Sim3Default}]
    /\ \A i \in Slots : g[i] \in RepElems
    /\ g["result"] = Sim3Default
    /\ res = NoCall
    /\ n = 0
    /\ ta = TangentZero
    /\ tb = TangentZero
    /\ coeffs = data(Sim3Default)

NextRep ==
    \/ \E i \in Slots, j \in Slots : RepMulAssign(i, j)
    \/ \E i \in Slots, j \in Slots : RepMul(i, j)
    \/ \E i \in Slots : RepInverse(i)
    \/ \E i \in Slots : \E j \in RepSlots \ {i} : RepAssign(i, j)
    \/ \E i \in Slots, s \in RepScales : RepSetScale(i, s)
    \/ \E i \in Slots : RepMatrix(i)
    \/ \E i \in Slots : RepMatrix3x4(i)
    \/ \E i \in Slots : RepMulPoint(i)
    \/ \E i \in Slots : RepAdj(i)
    \/ \E i \in RepSlots : RepLog(i)
    \/ RepHat(RepPoint \o <<Zero, One, Zero, Half>>)

SpecRep == InitRep /\ [][NextRep]_vars

----------------------------------------------------------------------------
(* An owning element, object A of the store, and an Eigen::Map over the    *)
(* caller's buffer coeffs, which starts with the scalars of A.  Every      *)
(* call is made on both: with argument "B" the other object of the store,  *)
(* with argument "A" each of the two is its own argument.  The view's      *)
(* rxso3() and translation() are references into the buffer, so what the   *)
(* call stores in them is stored in coeffs.                                *)

MapElems == RepElems \cup {Sim3(IVec(<<2, 2, 0, 1>>), IVec(<<1, 2, 3>>)),
                           Sim3Default}

OnView(j) == [self |-> Map(coeffs),
              other |-> IF j = "A" THEN Map(coeffs) ELSE g[j]]

MapAssign(j) ==
    /\ n < MaxOps
    /\ g' = operatorAssign(g, "A", j)
    /\ coeffs' = MapWrite(coeffs, operatorAssign(OnView(j), "self", "other").self)
    /\ res' = [op |-> "assign", self |-> "A", other |-> j]
    /\ n' = n + 1
    /\ UNCHANGED <<ta, tb>>

MapMulAssign(j) ==
    /\ n < MaxOps
    /\ g' = operatorMulAssign(g, "A", j)
    /\ coeffs' = MapWrite(coeffs,
                          operatorMulAssign(OnView(j), "self", "other").self)
    /\ res' = [op |-> "mulassign", self |-> "A", other |-> j]
    /\ n' = n + 1
    /\ UNCHANGED <<ta, tb>>

InitMap ==
    /\ g \in [Slots -> MapElems]
    /\ coeffs = data(g["A"])
    /\ res = NoCall
    /\ n = 0
    /\ ta = TangentZero
    /\ tb = TangentZero

NextMap ==
    \/ \E j \in Slots : MapAssign(j)
    \/ \E j \in Slots : MapMulAssign(j)

SpecMap == InitMap /\ [][NextMap]_vars

----------------------------------------------------------------------------
(* Claims on the group operations, checked under Spec                      *)

(* the element the documentation gives for A o B *)
Composition(A, B) ==
    Sim3(RxSO3mul(A.rxso3, B.rxso3),
         VAdd(A.translation, RxSO3act(A.rxso3, B.translation)))
IsGeneric(A) == A.translation # VZero(3) /\ scale(A) # One

(* C1: A*B has rotation-scale A.rxso3 o B.rxso3 and translation            *)
(* A.translation + A.rxso3 . B.translation, and A *= B leaves A equal to   *)
(* that value, computed from A and B as they were before the call, also    *)
(* when B is the object A itself; the other object is left as it was.      *)
C1_Composition ==
    /\ res.op = "mul" =>
          res.value = Composition(g[res.self], g[res.other])
    /\ res.op = "mulassign" =>
          /\ g[res.self] = Composition(res.pre[res.self], res.pre[res.other])
          /\ g[res.self] = operatorMul(res.pre[res.self], res.pre[res.other])
          /\ \A s \in Slots \ {res.self} : g[s] = res.pre[s]

(* an object with scale # 1 and a non-zero translation was multiplied by itself *)
C1_Witness ==
    /\ res.op = "mulassign"
    /\ res.self = res.other
    /\ IsGeneric(res.pre[res.self])
    /\ g[res.self] # res.pre[res.self]

(* C2: inverse() returns (invRS, invRS . (-translation)) with              *)
(* invRS = rxso3.inverse(), and g o g^-1 and g^-1 o g are both the         *)
(* identity element.                                                       *)
C2_Inverse ==
    res.op = "inverse" =>
        LET A == g[res.self]
            invRS == RxSO3inverse(A.rxso3)
        IN  /\ res.value = Sim3(invRS, RxSO3act(invRS, VNeg(A.translation)))
            /\ operatorMul(A, res.value) = Sim3Default
            /\ operatorMul(res.value, A) = Sim3Default

(* inverse() was called on an object with scale # 1, a rotation and a      *)
(* non-zero translation, and the translation was rotated and scaled        *)
C2_Witness ==
    /\ res.op = "inverse"
    /\ IsGeneric(g[res.self])
    /\ rotationMatrix(g[res.self]) # MIdentity(3)
    /\ res.value.translation # VNeg(g[res.self].translation)

(* C3: the point action is p' = rxso3 . p + translation, and it is         *)
(* compatible with composition: (g1 * g2) * p = g1 * (g2 * p).             *)
C3_ActionCompatible ==
    res.op = "mulpoint" =>
        LET g2 == g[res.self]
        IN  /\ res.value = VAdd(RxSO3act(g2.rxso3, res.p), g2.translation)
            /\ \A s \in Slots :
                  operatorMulPoint(operatorMul(g[s], g2), res.p)
                      = operatorMulPoint(g[s], res.value)

(* a point was transformed by an object g2, and the other object g1 is     *)
(* generic and does not commute with g2                                    *)
C3_Witness ==
    /\ res.op = "mulpoint"
    /\ \E s \in Slots :
          /\ IsGeneric(g[s]) /\ IsGeneric(g[res.self])
          /\ operatorMul(g[s], g[res.self]) # operatorMul(g[res.self], g[s])
          /\ operatorMulPoint(g[s], res.value) # res.value

(* C4: Adj(g) has the blocks scale.R, skew(t).R, -t, R and 1, zero         *)
(* elsewhere, and hat(Adj(g) . x) = matrix(g) . hat(x) . matrix(g^-1) for  *)
(* every tangent x.                                                        *)
AdjTangents == SparseTangents(1)
C4_Adjoint ==
    res.op = "Adj" =>
        LET A == g[res.self]
            R == rotationMatrix(A)
            Ad == res.value
            T == matrix(A)
            Tinv == matrix(inverse(A))
        IN  /\ Block(Ad, 0, 0, 3, 3) = MScale(scale(A), R)
            /\ Block(Ad, 0, 3, 3, 3) = MMul(SO3hat(A.translation), R)
            /\ Block(Ad, 0, 6, 3, 1) = ColMat(VNeg(A.translation))
            /\ Block(Ad, 3, 3, 3, 3) = R
            /\ Ad[7][7] = One
            /\ Block(Ad, 3, 0, 4, 3) = MZero(4, 3)
            /\ Block(Ad, 3, 6, 3, 1) = MZero(3, 1)
            /\ Block(Ad, 6, 3, 1, 3) = MZero(1, 3)
            /\ \A x \in AdjTangents :
                  hat(MVec(Ad, x))
                      = MMul(MMul(T, hat(x)), Tinv)

(* Adj() was called on an object with scale # 1, a rotation and a non-zero *)
(* translation                                                             *)
C4_Witness ==
    /\ res.op = "Adj"
    /\ IsGeneric(g[res.self])
    /\ rotationMatrix(g[res.self]) # MIdentity(3)

----------------------------------------------------------------------------
(* Claims on the tangent-space functions, checked under SpecAlg            *)

(* upper-left block skew(omega) + sigma * I, last row zero *)
IsLieAlgebraForm(M) ==
    /\ M[4] = VZero(N)
    /\ M[1][1] = M[2][2] /\ M[2][2] = M[3][3]
    /\ M[1][2] = SNeg(M[2][1])
    /\ M[1][3] = SNeg(M[3][1])
    /\ M[2][3] = SNeg(M[3][2])

(* C5: vee(hat(a)) = a for every tangent a, and hat(vee(Omega)) = Omega    *)
(* for every 4x4 matrix Omega of Lie-algebra form.                         *)
C5_HatVeeInverse ==
    /\ res.op = "hat" => vee(res.value) = ta
    /\ res.op = "vee" /\ IsLieAlgebraForm(res.Omega) => hat(res.value) = res.Omega

(* vee was applied to a matrix of Lie-algebra form with a rotation, a      *)
(* scale and a translation part, which is not the matrix of ta             *)
C5_Witness ==
    /\ res.op = "vee"
    /\ IsLieAlgebraForm(res.Omega)
    /\ res.Omega # hat(ta)
    /\ res.value[7] # Zero
    /\ Segment(res.value, 3, 3) # VZero(3)
    /\ head3(res.value) # VZero(3)

Commutator(X, Y) == MSub(MMul(X, Y), MMul(Y, X))

(* C6: hat(lieBracket(a, b)) = hat(a).hat(b) - hat(b).hat(a), and the      *)
(* scale component of lieBracket(a, b) is 0.                               *)
C6_LieBracket ==
    res.op = "lieBracket" =>
        /\ hat(res.value) = Commutator(hat(ta), hat(tb))
        /\ res.value[7] = Zero

(* a bracket in which the scale of a multiplies the translation of b *)
C6_Witness ==
    /\ res.op = "lieBracket"
    /\ ta[7] # Zero
    /\ head3(tb) # VZero(3)
    /\ head3(res.value) = VScale(ta[7], head3(tb))
    /\ head3(res.value) # VZero(3)

(* C7: lieBracket(a, a) = 0 and lieBracket(a, b) = -lieBracket(b, a).      *)
C7_Antisymmetric ==
    res.op = "lieBracket" =>
        /\ res.value = VNeg(lieBracket(tb, ta))
        /\ lieBracket(ta, ta) = TangentZero
        /\ lieBracket(tb, tb) = TangentZero

(* a non-zero bracket of two different tangents, a with translation and scale *)
C7_Witness ==
    /\ res.op = "lieBracket"
    /\ res.value # TangentZero
    /\ ta # tb
    /\ ta[7] # Zero
    /\ head3(ta) # VZero(3)

(* C8: d_lieBracketab_by_d_a(b) . a = lieBracket(a, b) for all tangents    *)
(* a and b.                                                                *)
C8_BracketJacobian ==
    res.op = "d_lieBracketab_by_d_a" =>
        MVec(res.value, ta) = lieBracket(ta, tb)

(* the Jacobian at a b with a translation, applied to an a with a scale *)
C8_Witness ==
    /\ res.op = "d_lieBracketab_by_d_a"
    /\ ta[7] # Zero
    /\ head3(tb) # VZero(3)
    /\ lieBracket(ta, tb) # TangentZero

InRange(i) == i >= 0 /\ i <= 6

(* C9: generator(i) ends in a failed contract check, returning no matrix,  *)
(* for every i outside [0, 6], and the check passes for every i in [0, 6]. *)
C9_GeneratorCheckFires ==
    res.op = "generator" =>
        IF InRange(res.i)
        THEN res.outcome.status = "returned"
        ELSE res.outcome.status = "ensure_failed"

(* the matrix a call generator(i), i in [0, 6], returns *)
Generated(i) == (CHOOSE o \in generator(i) : o.status = "returned").value

----------------------------------------------------------------------------
(* exp, log and the kernels                                                *)

(* entrywise distance at most tol *)
NearV(u, v, tol) == \A i \in 1..Len(u) : SLeq(SAbs(SSub(u[i], v[i])), tol)
NearM(A, B, tol) == \A i \in 1..Len(A) : NearV(A[i], B[i], tol)
NearSim3(A, B, tol) ==
    NearV(A.rxso3, B.rxso3, tol) /\ NearV(A.translation, B.translation, tol)

calcWRegime(theta, sigma) ==
    <<calcWSigmaSmall(sigma), calcWThetaSmall(theta)>>
calcWInvRegime(theta, sigma) ==
    <<calcWInvSigmaSmall(sigma), calcWInvThetaSmall(theta)>>

(* both kernels take the same regime at (theta, sigma) *)
SameRegime(theta, sigma) ==
    calcWRegime(theta, sigma) = calcWInvRegime(theta, sigma)

(* C11: where both kernels take the same regime, log(exp(a)) is a and      *)
(* exp(log(g)) is g within epsilon, and calcWInv * calcW is the identity   *)
(* within epsilon.                                                         *)
C11_RoundTrip ==
    SameRegime(Theta(ta), ta[7]) =>
        /\ res.op = "log" => NearV(res.value, ta, epsilon)
        /\ res.op = "exp_log" => NearSim3(res.value, res.other, epsilon)
        /\ res.op = "calcW" =>
              NearM(MMul(calcWInv(res.theta, res.sigma, Exp(res.sigma),
                                  SO3hat(Segment(ta, 3, 3))),
                         res.value),
                    MIdentity(3), epsilon)

IsKernelCall == res.op \in {"calcW", "calcWInv"}

(* the arguments at which the two smallness tests of a kernel pair agree:  *)
(* |x| < epsilon, or x^2 >= epsilon                                       *)
Agreed(x) == SLess(SAbs(x), epsilon) \/ ~SLess(SMul(x, x), epsilon)

(* C15, as stated: for every (theta, sigma) with |sigma| < epsilon or     *)
(* sigma^2 >= epsilon, calcW and calcWInv take the same one of the four   *)
(* regimes.                                                                *)
C15_SameRegimeAnyTheta ==
    IsKernelCall /\ Agreed(res.sigma) => SameRegime(res.theta, res.sigma)

(* C15, amended: calcW takes theta as small iff |theta| < epsilon and      *)
(* calcWInv iff theta^2 < epsilon, as for sigma; for every (theta, sigma)  *)
(* with (|sigma| < epsilon or sigma^2 >= epsilon) and (|theta| < epsilon   *)
(* or theta^2 >= epsilon) both kernels take the same regime.               *)
C15_SameRegime ==
    IsKernelCall /\ Agreed(res.sigma) /\ Agreed(res.theta)
        => SameRegime(res.theta, res.sigma)

(* calcWInv was called with a theta below epsilon, not zero, and a sigma   *)
(* whose square is not below epsilon: both kernels take the pure-scale     *)
(* regime                                                                  *)
C15_Witness ==
    /\ res.op = "calcWInv"
    /\ Agreed(res.sigma) /\ Agreed(res.theta)
    /\ res.theta # Zero
    /\ calcWInvRegime(res.theta, res.sigma) = <<FALSE, TRUE>>
    /\ calcWRegime(res.theta, res.sigma) = <<FALSE, TRUE>>

(* C16: at the sigma switch of calcW with theta small, the coefficients    *)
(* A, B, C of the pure-scale branch at sigma = epsilon are within epsilon  *)
(* of those of the branch below epsilon (1/2, 1/6, 1), and so are the      *)
(* matrices the two branches return.                                       *)
C16_BranchContinuity ==
    (res.op = "calcW" /\ res.sigma = epsilon /\ calcWThetaSmall(res.theta)) =>
        LET below == calcWCoefs(res.theta, Zero, One)
        IN  /\ NearV(<<res.coefs.A, res.coefs.B, res.coefs.C>>,
                     <<below.A, below.B, below.C>>, epsilon)
            /\ NearM(res.value,
                     calcW(res.theta, Zero, One, SO3hat(Segment(ta, 3, 3))),
                     epsilon)

----------------------------------------------------------------------------
(* C12: after any sequence of operator*, operator*=, inverse, assignment   *)
(* and setScale with a positive argument, started from constructed         *)
(* elements, every element has a positive scale, and its matrix() has the  *)
(* last row (0, 0, 0, 1), the translation in the last column and an        *)
(* upper-left 3x3 block M with M^T M = scale^2 I and det M > 0.            *)

Transpose(A) == LET E(i, j) == A[j][i] IN Mat(Len(A[1]), Len(A), E)
Det3(A) == Dot(A[1], Cross(A[2], A[3]))

RepOK(A) ==
    LET T == matrix(A)
        M == Block(T, 0, 0, 3, 3)
        s == scale(A)
    IN  /\ SLess(Zero, s)
        /\ T[4] = <<Zero, Zero, Zero, One>>
        /\ <<T[1][4], T[2][4], T[3][4]>> = A.translation
        /\ MMul(Transpose(M), M) = MScale(SMul(s, s), MIdentity(3))
        /\ SLess(Zero, Det3(M))

C12_Representation == \A i \in DOMAIN g : RepOK(g[i])

(* two operations were applied, the last one a composition or a setScale   *)
(* that left an element with a scale other than one and a rotation         *)
C12_Witness ==
    /\ n = MaxOps
    /\ res.op \in {"mulassign", "setScale", "inverse"}
    /\ scale(g[res.self]) # One
    /\ QVec(g[res.self].rxso3) # VZero(3)
    /\ g[res.self] \notin RepElems

----------------------------------------------------------------------------
(* C13: the const member functions and the static functions leave every   *)
(* object of the store as it was (operator* and inverse write only the     *)
(* object they return) and return a value in which every entry was         *)
(* written, so that equal inputs give equal results; operator*= changes    *)
(* only its receiver, and so leaves `other` unchanged when it is a         *)
(* distinct object.                                                        *)

ConstOps == {"Adj", "inverse", "log", "matrix", "matrix3x4", "mul",
             "mulpoint", "hat"}
DeterminedV(v) == \A i \in 1..Len(v) : v[i] # Uninit
DeterminedM(M) == \A i \in 1..Len(M) : DeterminedV(M[i])
DeterminedSim3(A) == DeterminedV(A.rxso3) /\ DeterminedV(A.translation)

FrameStep ==
    /\ res'.op \in ConstOps => \A i \in Slots : g'[i] = g[i]
    /\ res'.op \in {"mul", "inverse"} => DeterminedSim3(g'["result"])
    /\ res'.op \in {"Adj", "matrix", "matrix3x4", "hat"} =>
           DeterminedM(res'.value)
    /\ res'.op \in {"log", "mulpoint"} => DeterminedV(res'.value)
    /\ res'.op = "mulassign" =>
           \A i \in RepSlots \ {res'.self} : g'[i] = g[i]

----------------------------------------------------------------------------
(* C14: the view reads scalars 0-3 of the buffer as the rotation-scale     *)
(* parameters and 4-6 as the translation, and after any sequence of        *)
(* assignments and in-place compositions made on both the view and the     *)
(* owning element, the 7 scalars of the buffer equal the element's data(). *)

C14_StorageEquivalence ==
    /\ Map(coeffs).rxso3 = <<coeffs[1], coeffs[2], coeffs[3], coeffs[4]>>
    /\ Map(coeffs).translation = <<coeffs[5], coeffs[6], coeffs[7]>>
    /\ coeffs = data(g["A"])

(* two in-place compositions were made, the last one with another object,  *)
(* and moved both the rotation-scale and the translation                   *)
C14_Witness ==
    /\ n = MaxOps
    /\ res.op = "mulassign"
    /\ res.other = "B"
    /\ Map(coeffs).rxso3 \notin {e.rxso3 : e \in MapElems}
    /\ Map(coeffs).translation \notin {e.translation : e \in MapElems}

====
